---- MODULE Spec2Model ----
(***************************************************************************)
(* Model of fullcalendar/models.py and templatetags/fullcalendar.py:       *)
(* Event.add_occurrences / create_event (recurrence expansion and          *)
(* persistence of Occurrence rows) and the OccurrenceManager queries       *)
(* (upcoming, daily_occurrences, their site_related variants, in_past).    *)
(*                                                                         *)
(* Time is an integer number of ticks.  A tick is the sub-second           *)
(* resolution of datetime (the microsecond), scaled down: a second is      *)
(* TicksPerSec ticks, an hour SecsPerHour seconds, a day HoursPerDay       *)
(* hours.  Representable datetimes are 0..MaxTime (datetime.min/max), the   *)
(* ticks of HorizonDays days; the times that requests carry (Times) lie in *)
(* the first MaxDay days, as real requests lie far from datetime.max.      *)
(***************************************************************************)
EXTENDS Integers, Sequences, FiniteSets

VARIABLES events, occurrences, last

vars == <<events, occurrences, last>>

---------------------------------------------------------------------------
(* Bounds of the model *)

TicksPerSec == 2

SecsPerHour == 2

HoursPerDay == 1

MaxDay == 3

HorizonDays == 8

WeekLen == 2

MaxCount == 2

MaxInterval == 2

MaxRows == 2

MaxEvents == 2

MaxSite == 2

---------------------------------------------------------------------------
(* datetime arithmetic *)

None == -1

HourLen == SecsPerHour * TicksPerSec

DayLen == HoursPerDay * HourLen

MaxTime == HorizonDays * DayLen - 1

Times == 0..(MaxDay * DayLen - 1)

Sites == 1..MaxSite

\* datetime.replace(microsecond=0)
TruncSecond(t) == t - (t % TicksPerSec)

\* datetime.replace(minute=0, second=0, microsecond=0)
TruncHour(t) == t - (t % HourLen)

\* datetime(dt.year, dt.month, dt.day)
Midnight(t) == t - (t % DayLen)

\* start.replace(hour=23, minute=59, second=59) of a midnight
EndOfDay(m) == m + DayLen - TicksPerSec

DayOf(t) == t \div DayLen

Weekday(t) == DayOf(t) % WeekLen

\* datetime arithmetic raises OverflowError outside datetime.min..max
Representable(t) == t \in 0..MaxTime

---------------------------------------------------------------------------
(* dateutil.rrule.rrule(dtstart=..., **rrule_params), as iterated by       *)
(* add_occurrences.  A rule is a record; a field equal to None is a key    *)
(* that is not in rrule_params.                                            *)

\* the value of rule.freq when 'freq' is not in rrule_params
NoFreq == "None"

FreqUnit(freq) == IF freq = "SECONDLY" THEN TicksPerSec
                  ELSE IF freq = "HOURLY" THEN HourLen
                  ELSE DayLen

RuleMatches(rule, t) ==
    rule.byweekday = None \/ Weekday(t) = rule.byweekday

RECURSIVE RRuleFrom(_, _, _)
RRuleFrom(t, rule, left) ==
    IF t > MaxTime THEN << >>
    ELSE IF rule.until # None /\ t > rule.until THEN << >>
    ELSE IF rule.count # None /\ left = 0 THEN << >>
    ELSE IF RuleMatches(rule, t)
         THEN <<t>> \o RRuleFrom(t + rule.interval * FreqUnit(rule.freq), rule,
                                 IF rule.count # None THEN left - 1 ELSE left)
         ELSE RRuleFrom(t + rule.interval * FreqUnit(rule.freq), rule, left)

RRule(dtstart, rule) ==
    RRuleFrom(TruncSecond(dtstart), rule,
              IF rule.count # None THEN rule.count ELSE 0)

---------------------------------------------------------------------------
(* Event.add_occurrences *)

\* rrule_params.setdefault('freq', rrule.DAILY)
SetDefaultFreq(rule) ==
    IF rule.freq = NoFreq THEN [rule EXCEPT !.freq = "DAILY"] ELSE rule

\* Expansion that sends every rule through rrule, an unbounded one as count=1
ExpansionAlwaysRRule(start_time, end_time, rule) ==
    LET params == SetDefaultFreq(rule)
        bounded == IF params.count = None /\ params.until = None
                   THEN [params EXCEPT !.count = 1] ELSE params
        delta == end_time - start_time
        evs == RRule(start_time, bounded)
    IN  [k \in 1..Len(evs) |->
           [start_time |-> evs[k],
            end_time |-> IF Representable(evs[k] + delta)
                         THEN evs[k] + delta ELSE None]]

\* Expansion that gives every occurrence the literal end_time
ExpansionLiteralEnd(start_time, end_time, rule) ==
    LET params == SetDefaultFreq(rule) IN
    IF params.count = None /\ params.until = None
    THEN << [start_time |-> start_time, end_time |-> end_time] >>
    ELSE LET evs == RRule(start_time, params)
         IN  [k \in 1..Len(evs) |->
                [start_time |-> evs[k], end_time |-> end_time]]

\* Expansion that drops until when count is given
ExpansionCountWins(start_time, end_time, rule) ==
    LET params == SetDefaultFreq(rule) IN
    IF params.count = None /\ params.until = None
    THEN << [start_time |-> start_time, end_time |-> end_time] >>
    ELSE LET delta == end_time - start_time
             evs == RRule(start_time,
                          IF params.count # None
                          THEN [params EXCEPT !.until = None] ELSE params)
         IN  [k \in 1..Len(evs) |->
                [start_time |-> evs[k],
                 end_time |-> IF Representable(evs[k] + delta)
                              THEN evs[k] + delta ELSE None]]

\* the (start_time, end_time) pairs the method passes to occurrence_set.create,
\* in order; an end time of None marks an ev + delta that overflows
Expansion(start_time, end_time, rule) ==
    LET params == SetDefaultFreq(rule) IN
    IF params.count = None /\ params.until = None
    THEN << [start_time |-> start_time, end_time |-> end_time] >>
    ELSE LET delta == end_time - start_time
             evs == RRule(start_time, params)
         IN  [k \in 1..Len(evs) |->
                [start_time |-> evs[k],
                 end_time |-> IF Representable(evs[k] + delta)
                              THEN evs[k] + delta ELSE None]]

\* index of the first create that raises: the failAt-th insert fails in the
\* database (0: none does), or ev + delta overflows; 0 when every create succeeds
FirstFailure(gen, failAt) ==
    LET bad == {k \in 1..Len(gen) : k = failAt \/ gen[k].end_time = None}
    IN  IF bad = {} THEN 0 ELSE CHOOSE k \in bad : \A j \in bad : k <= j

\* Inserted inside one transaction: a failure rolls every row back
InsertedAtomic(gen, fail) ==
    IF fail = 0 THEN gen ELSE << >>

\* the rows of gen stored in the table when the method returns or raises
Inserted(gen, fail) ==
    IF fail = 0 THEN gen ELSE SubSeq(gen, 1, fail - 1)

Row(e, p) == [event |-> e, start_time |-> p.start_time, end_time |-> p.end_time]

Rows(e, ps) == [k \in 1..Len(ps) |-> Row(e, ps[k])]

AddOccurrences(e, start_time, end_time, rule, failAt) ==
    LET gen == Expansion(start_time, end_time, rule)
        fail == FirstFailure(gen, failAt)
        ins == Inserted(gen, fail)
    IN  /\ e \in 1..Len(events)
        /\ occurrences' = occurrences \o Rows(e, ins)
        /\ last' = [op |-> "add_occurrences", event |-> e,
                    start_time |-> start_time, end_time |-> end_time,
                    rule |-> rule, before |-> Len(occurrences),
                    failed |-> fail,
                    outcome |-> IF fail = 0 THEN "ok" ELSE "error"]
        /\ UNCHANGED events

---------------------------------------------------------------------------
(* create_event *)

\* fullcalendar.conf.settings.DEFAULT_OCCURRENCE_DURATION
DefaultOccurrenceDuration == HourLen

CreateEvent(site, now, start_arg, end_arg, rule, failAt) ==
    LET e == Len(events) + 1
        start_time == IF start_arg # None THEN start_arg ELSE TruncHour(now)
        end_time == IF end_arg # None THEN end_arg
                    ELSE start_time + DefaultOccurrenceDuration
        \* start_time + DEFAULT_OCCURRENCE_DURATION may overflow before
        \* add_occurrences is reached
        gen == IF Representable(end_time)
               THEN Expansion(start_time, end_time, rule) ELSE << >>
        fail == IF Representable(end_time)
                THEN FirstFailure(gen, failAt) ELSE 1
        ins == Inserted(gen, fail)
    IN  /\ events' = Append(events, site)
        /\ occurrences' = occurrences \o Rows(e, ins)
        /\ last' = [op |-> "create_event", event |-> e,
                    start_time |-> start_time, end_time |-> end_time,
                    rule |-> rule, before |-> Len(occurrences),
                    failed |-> fail,
                    outcome |-> IF fail = 0 THEN "ok" ELSE "error"]

---------------------------------------------------------------------------
Init ==
    /\ events = << >>
    /\ occurrences = << >>
    /\ last = [op |-> "init"]

---------------------------------------------------------------------------
(* QuerySets: sequences of row ids (indices of occurrences), evaluated in  *)
(* Occurrence.Meta.ordering = ('start_time', 'end_time')                   *)

\* ORDER BY start_time, end_time (rows equal on both keep id order)
Before(i, j) ==
    LET a == occurrences[i]
        b == occurrences[j]
    IN  \/ a.start_time < b.start_time
        \/ a.start_time = b.start_time /\ a.end_time < b.end_time
        \/ a.start_time = b.start_time /\ a.end_time = b.end_time /\ i < j

RECURSIVE Ordered(_)
Ordered(ids) ==
    IF ids = {} THEN << >>
    ELSE LET first == CHOOSE i \in ids : \A j \in ids \ {i} : Before(i, j)
         IN  <<first>> \o Ordered(ids \ {first})

\* models.Manager.get_queryset: every row of the table
GetQueryset == {i \in 1..Len(occurrences) : TRUE}

\* get_queryset of the site manager without the site filter
SiteRelatedGetQuerysetAll(current_site) ==
    {i \in GetQueryset : current_site \in Sites}

\* SiteRelatedOccurrenceManager.get_queryset
SiteRelatedGetQueryset(current_site) ==
    {i \in GetQueryset : events[occurrences[i].event] = current_site}

\* upcoming with start_time__gt in place of start_time__gte
UpcomingQsStrict(qs, start_arg, end_arg, now) ==
    LET start == IF start_arg # None THEN start_arg ELSE now
    IN  {i \in qs : occurrences[i].start_time > start}

\* OccurrenceManager.upcoming over the manager's queryset qs
UpcomingQs(qs, start_arg, end_arg, now) ==
    LET start == IF start_arg # None THEN start_arg ELSE now
        upcoming == {i \in qs : occurrences[i].start_time >= start}
        \* "if end: qs.filter(start_time__lte=end)": the filtered queryset is
        \* built and dropped, qs itself is returned
        dropped == {i \in upcoming : occurrences[i].start_time <= end_arg}
    IN  IF end_arg # None THEN upcoming ELSE upcoming

\* the overlap test without its third Q
DayOverlapNoSpan(o, start, end) ==
    \/ o.start_time >= start /\ o.start_time <= end
    \/ o.end_time >= start /\ o.end_time <= end

\* the Q(...) | Q(...) | Q(...) of daily_occurrences
DayOverlap(o, start, end) ==
    \/ o.start_time >= start /\ o.start_time <= end
    \/ o.end_time >= start /\ o.end_time <= end
    \/ o.start_time < start /\ o.end_time > end

\* OccurrenceManager.daily_occurrences over the manager's queryset qs
DailyQs(qs, dt_arg, event, now) ==
    LET dt == IF dt_arg # None THEN dt_arg ELSE now
        start == Midnight(dt)
        end == EndOfDay(start)
        day == {i \in qs : DayOverlap(occurrences[i], start, end)}
    IN  IF event # None THEN {i \in day : occurrences[i].event = event}
        ELSE day

\* qs[:int(kwargs['limit'])]
Limit(seq, limit) ==
    IF limit # None /\ limit < Len(seq) THEN SubSeq(seq, 1, limit) ELSE seq

\* Occurrence.in_past
InPastValue(o, now) == o.end_time > now

---------------------------------------------------------------------------
(* The query operations; each records its arguments and its result *)

Upcoming(start_arg, end_arg, now) ==
    /\ last' = [op |-> "upcoming", start |-> start_arg, end |-> end_arg,
                now |-> IF start_arg = None THEN now ELSE None,
                result |-> Ordered(UpcomingQs(GetQueryset, start_arg, end_arg, now))]
    /\ UNCHANGED <<events, occurrences>>

SiteUpcoming(current_site, start_arg, end_arg, now) ==
    /\ last' = [op |-> "site_upcoming", site |-> current_site,
                start |-> start_arg, end |-> end_arg,
                now |-> IF start_arg = None THEN now ELSE None,
                result |-> Ordered(UpcomingQs(SiteRelatedGetQueryset(current_site),
                                              start_arg, end_arg, now))]
    /\ UNCHANGED <<events, occurrences>>

DailyOccurrences(dt_arg, event, now) ==
    /\ last' = [op |-> "daily_occurrences", dt |-> dt_arg, event |-> event,
                now |-> IF dt_arg = None THEN now ELSE None,
                result |-> Ordered(DailyQs(GetQueryset, dt_arg, event, now))]
    /\ UNCHANGED <<events, occurrences>>

SiteDailyOccurrences(current_site, dt_arg, event, now) ==
    /\ last' = [op |-> "site_daily_occurrences", site |-> current_site,
                dt |-> dt_arg, event |-> event,
                now |-> IF dt_arg = None THEN now ELSE None,
                result |-> Ordered(DailyQs(SiteRelatedGetQueryset(current_site),
                                           dt_arg, event, now))]
    /\ UNCHANGED <<events, occurrences>>

\* templatetags: get_site_agenda / show_site_agenda
GetSiteAgenda(current_site, limit, now) ==
    /\ last' = [op |-> "get_site_agenda", site |-> current_site,
                limit |-> limit, now |-> now,
                result |-> Limit(Ordered(UpcomingQs(
                              SiteRelatedGetQueryset(current_site), None, None, now)),
                              limit)]
    /\ UNCHANGED <<events, occurrences>>

InPast(i, now) ==
    /\ i \in 1..Len(occurrences)
    /\ last' = [op |-> "in_past", id |-> i, now |-> now,
                result |-> InPastValue(occurrences[i], now)]
    /\ UNCHANGED <<events, occurrences>>

---------------------------------------------------------------------------
(* Inputs *)

NoRule == [freq |-> NoFreq, interval |-> 1, count |-> None, until |-> None,
           byweekday |-> None]

\* the whole seconds: the instants a rule can generate
WholeSeconds == {t \in Times : t % TicksPerSec = 0}

\* until bounds: the whole seconds up to the third midnight
UntilTimes == {t \in WholeSeconds : t <= 2 * DayLen}

\* every rule over the modelled rrule parameters
Rules == [freq : {NoFreq, "DAILY", "SECONDLY"}, interval : 1..MaxInterval,
          count : {None} \cup 1..MaxCount, until : {None} \cup UntilTimes,
          byweekday : {None} \cup 0..(WeekLen - 1)]

Durations == {-1, 0, 1, DayLen + 1}

Spans == {sp \in Times \X Times : sp[2] - sp[1] \in Durations}

\* the rules of the small workload that fills the table for the queries
SampleRules == {NoRule, [NoRule EXCEPT !.count = MaxCount]}

\* start times around the second day's window: the last tick of the first
\* day, midnight, and the last tick of the second day
SampleStarts == {DayLen - 1, DayLen, 2 * DayLen - 1}

SampleDurations == {0, DayLen + 1}

OptSeconds == {None} \cup WholeSeconds

SampleSpans == {sp \in SampleStarts \X Times : sp[2] - sp[1] \in SampleDurations}

\* the spans of the workload of the site queries: those of the first two days
SiteSpans == {sp \in SampleSpans : sp[1] <= DayLen /\ sp[2] <= 2 * DayLen}

---------------------------------------------------------------------------
(* Specifications *)

\* A query leaves the tables unchanged, so queries and writes are explored
\* from the states the writes produce; every state of tables and last result
\* that a run interleaving queries and writes reaches is still reached.
AfterWrite == last.op \in {"init", "create_event", "add_occurrences"}

\* the calls that fill the table for the queries
Populate(sites, spans, rules) ==
    \/ /\ AfterWrite
       /\ Len(events) < MaxEvents
       /\ \E site \in sites, sp \in spans, rule \in rules :
             /\ CreateEvent(site, 0, sp[1], sp[2], rule, 0)
             /\ Len(occurrences') <= MaxRows
    \/ /\ AfterWrite
       /\ \E e \in 1..Len(events), sp \in spans, rule \in rules :
             /\ AddOccurrences(e, sp[1], sp[2], rule, 0)
             /\ Len(occurrences') <= MaxRows

OptEvents == {None} \cup 1..Len(events)

Next ==
    \/ Populate({1}, SampleSpans, SampleRules)
    \/ /\ AfterWrite
       /\ \E start_arg \in Times, end_arg \in OptSeconds :
             Upcoming(start_arg, end_arg, None)
    \/ /\ AfterWrite
       /\ \E now \in Times, end_arg \in OptSeconds : Upcoming(None, end_arg, now)
    \/ /\ AfterWrite
       /\ \E dt_arg \in Times, event \in OptEvents :
             DailyOccurrences(dt_arg, event, None)
    \/ /\ AfterWrite
       /\ \E now \in Times, event \in OptEvents :
             DailyOccurrences(None, event, now)
    \/ /\ AfterWrite
       /\ \E i \in 1..Len(occurrences), now \in Times : InPast(i, now)

Spec == Init /\ [][Next]_vars

NextSite ==
    \/ Populate(Sites, SiteSpans, {NoRule})
    \/ /\ AfterWrite
       /\ \E site \in Sites, start_arg \in WholeSeconds, end_arg \in {None, 0} :
             SiteUpcoming(site, start_arg, end_arg, None)
    \/ /\ AfterWrite
       /\ \E site \in Sites, now \in WholeSeconds :
             SiteUpcoming(site, None, None, now)
    \/ /\ AfterWrite
       /\ \E site \in Sites, dt_arg \in WholeSeconds, event \in OptEvents :
             SiteDailyOccurrences(site, dt_arg, event, None)
    \/ /\ AfterWrite
       /\ \E site \in Sites, now \in WholeSeconds, event \in OptEvents :
             SiteDailyOccurrences(site, None, event, now)
    \/ /\ AfterWrite
       /\ \E site \in Sites, limit \in {None, 1}, now \in WholeSeconds :
             GetSiteAgenda(site, limit, now)

SpecSite == Init /\ [][NextSite]_vars

\* one call of add_occurrences, over every span and every rule, on a new event
NextExpand ==
    \/ /\ Len(events) = 0
       /\ \E now \in {0, MaxTime} :
             CreateEvent(1, now, None, None, NoRule, 0)
    \/ /\ last.op = "create_event"
       /\ \E e \in 1..Len(events), sp \in Spans, rule \in Rules, failAt \in 0..MaxCount :
             AddOccurrences(e, sp[1], sp[2], rule, failAt)

SpecExpand == Init /\ [][NextExpand]_vars

---------------------------------------------------------------------------
(* Properties of add_occurrences *)

IsAdd == last.op \in {"add_occurrences", "create_event"}

\* the rows the last call of add_occurrences left in the table
Added == SubSeq(occurrences, last.before + 1, Len(occurrences))

Unbounded == last.rule.count = None /\ last.rule.until = None

CountOnly == last.rule.count # None /\ last.rule.until = None

CountAndUntil == last.rule.count # None /\ last.rule.until # None

SameDuration ==
    \A k \in 1..Len(Added) :
        Added[k].end_time - Added[k].start_time = last.end_time - last.start_time

Increasing ==
    \A j, k \in 1..Len(Added) : j < k => Added[j].start_time < Added[k].start_time

\* C1: a call whose rule has neither count nor until, and whose insert
\* succeeds, creates exactly one occurrence of the event, with the literal
\* start_time and end_time, whatever freq, interval and byweekday are.
C1_SingleLiteralOccurrence ==
    (IsAdd /\ Unbounded /\ last.outcome = "ok") =>
        Added = << [event |-> last.event, start_time |-> last.start_time,
                    end_time |-> last.end_time] >>

C1_Witness ==
    /\ last.op = "add_occurrences"
    /\ Unbounded
    /\ last.outcome = "ok"
    /\ last.rule.freq = "SECONDLY"
    /\ last.rule.interval = MaxInterval
    /\ last.rule.byweekday # None
    /\ last.rule.byweekday # Weekday(last.start_time)
    /\ TruncSecond(last.start_time) # last.start_time
    /\ Len(Added) = 1

\* C2 (as claimed): a call with count = N and no until creates exactly N
\* occurrences, each of the duration of the arguments, with strictly
\* increasing start times.
C2_Original ==
    (IsAdd /\ CountOnly /\ last.outcome = "ok") =>
        /\ Len(Added) = last.rule.count
        /\ SameDuration
        /\ Increasing

\* the N-th date of a rule without by-* filter, counted from the start time
\* truncated to the second
NthDate ==
    TruncSecond(last.start_time)
      + (last.rule.count - 1) * last.rule.interval
          * FreqUnit(SetDefaultFreq(last.rule).freq)

\* C2 (amended): a call with count = N and no until that returns normally
\* creates at most N occurrences, exactly N when the rule has no by-* filter
\* and its N-th date is representable; each has the duration of the
\* arguments, and start times strictly increase in creation order.
C2_AtMostCount ==
    (IsAdd /\ CountOnly /\ last.outcome = "ok") =>
        /\ Len(Added) <= last.rule.count
        /\ (last.rule.byweekday = None /\ NthDate <= MaxTime)
              => Len(Added) = last.rule.count
        /\ SameDuration
        /\ Increasing

C2_Witness ==
    /\ last.op = "add_occurrences"
    /\ CountOnly
    /\ last.outcome = "ok"
    /\ last.rule.count = MaxCount
    /\ Len(Added) = MaxCount
    /\ last.end_time - last.start_time = DayLen + 1

\* C3 (as claimed): a call whose rule has both count and until raises and
\* creates no occurrence.
C3_Original ==
    (IsAdd /\ CountAndUntil) => (last.outcome = "error" /\ Added = << >>)

\* C3 (amended): a call whose rule has both count and until is expanded under
\* both bounds: it raises only when a create raises, creates at most count
\* occurrences, none starting after until, and creates the first date of the
\* rule when that date passes the filter and is not after until.
C3_BothBoundsApply ==
    (IsAdd /\ CountAndUntil) =>
        /\ last.outcome = "error" => (last.failed >= 1 /\ Len(Added) = last.failed - 1)
        /\ Len(Added) <= last.rule.count
        /\ \A k \in 1..Len(Added) : Added[k].start_time <= last.rule.until
        /\ ( /\ last.outcome = "ok"
             /\ last.rule.byweekday = None
             /\ TruncSecond(last.start_time) <= last.rule.until )
              => Len(Added) >= 1

C3_Witness ==
    /\ last.op = "add_occurrences"
    /\ CountAndUntil
    /\ last.outcome = "ok"
    /\ last.rule.count = MaxCount
    /\ Len(Added) = 1
    /\ Added[1].start_time = last.rule.until

\* C9: when the k-th create of a call raises, the call raises and the k-1
\* occurrences created before it are the rows the call leaves in the table.
C9_PartialPrefixPersists ==
    (IsAdd /\ last.outcome = "error") =>
        /\ last.failed >= 1
        /\ Len(Added) = last.failed - 1
        /\ Len(occurrences) = last.before + last.failed - 1
        /\ \A k \in 1..Len(Added) : Added[k].event = last.event
        /\ SameDuration
        /\ Increasing

C9_Witness ==
    /\ last.op = "add_occurrences"
    /\ last.outcome = "error"
    /\ last.rule.count = MaxCount
    /\ last.rule.until = None
    /\ last.failed = MaxCount
    /\ Len(Added) = MaxCount - 1
    /\ Len(Added) >= 1

---------------------------------------------------------------------------
(* Properties of the queries *)

Result == {last.result[k] : k \in 1..Len(last.result)}

NoDuplicates == Cardinality(Result) = Len(last.result)

AllIds == 1..Len(occurrences)

\* C4 (as claimed): every occurrence that upcoming returns when a horizon is
\* given starts no later than the horizon.
C4_HorizonBounds ==
    (last.op = "upcoming" /\ last.end # None) =>
        \A i \in Result : occurrences[i].start_time <= last.end

\* C5: upcoming(start=T) returns exactly the stored occurrences with
\* start_time >= T, each once, in ascending order of start time.
C5_UpcomingFromT ==
    (last.op = "upcoming" /\ last.start # None /\ last.end = None) =>
        /\ Result = {i \in AllIds : occurrences[i].start_time >= last.start}
        /\ NoDuplicates
        /\ \A j, k \in 1..Len(last.result) :
              j < k => occurrences[last.result[j]].start_time
                         <= occurrences[last.result[k]].start_time

\* a row starting exactly at T is returned, one starting a tick earlier is not
C5_Witness ==
    /\ last.op = "upcoming"
    /\ last.start # None
    /\ last.end = None
    /\ \E i, j \in AllIds :
          /\ occurrences[i].start_time = last.start
          /\ occurrences[j].start_time = last.start - 1
          /\ i < j
          /\ last.result = <<i>>

\* the day a daily_occurrences call asks for
AskedDay == DayOf(IF last.dt # None THEN last.dt ELSE last.now)

WindowStart == AskedDay * DayLen

\* 23:59:59 of the asked day
WindowEnd == (AskedDay + 1) * DayLen - TicksPerSec

EventWanted(i) == last.event = None \/ occurrences[i].event = last.event

OverlapsAskedDay(i) ==
    /\ occurrences[i].start_time <= occurrences[i].end_time
    /\ occurrences[i].start_time < (AskedDay + 1) * DayLen
    /\ occurrences[i].end_time >= AskedDay * DayLen

\* C8 (as claimed): daily_occurrences of a day returns, exactly once, every
\* occurrence persisted by add_occurrences that overlaps that day.
C8_RoundTrip ==
    last.op = "daily_occurrences" =>
        \A i \in AllIds :
            (OverlapsAskedDay(i) /\ EventWanted(i)) =>
                Cardinality({k \in 1..Len(last.result) : last.result[k] = i}) = 1

\* C10 (as claimed): in_past is true exactly when the occurrence ended before
\* the current time.
C10_InPast ==
    last.op = "in_past" =>
        (last.result <=> occurrences[last.id].end_time < last.now)

SiteOf(i) == events[occurrences[i].event]

OnSite(seq) ==
    LET Mine(i) == SiteOf(i) = last.site
    IN  SelectSeq(seq, Mine)

\* the result of the unscoped manager for the arguments of the last call
Unscoped ==
    IF last.op = "site_upcoming"
    THEN Ordered(UpcomingQs(GetQueryset, last.start, last.end, last.now))
    ELSE IF last.op = "site_daily_occurrences"
    THEN Ordered(DailyQs(GetQueryset, last.dt, last.event, last.now))
    ELSE Ordered(UpcomingQs(GetQueryset, None, None, last.now))

SiteOps == {"site_upcoming", "site_daily_occurrences", "get_site_agenda"}

\* C7: a site_related query returns exactly the occurrences of the unscoped
\* query with the same arguments whose event belongs to the current site (cut
\* to the limit by the agenda tags); no occurrence of another site is returned.
C7_SiteScoped ==
    last.op \in SiteOps =>
        /\ last.result = IF last.op = "get_site_agenda"
                         THEN Limit(OnSite(Unscoped), last.limit)
                         ELSE OnSite(Unscoped)
        /\ \A i \in Result : SiteOf(i) = last.site

C7_Witness ==
    /\ last.op = "site_daily_occurrences"
    /\ Len(last.result) = 1
    /\ Len(Unscoped) = 2
    /\ \E i \in AllIds : SiteOf(i) # last.site /\ Unscoped[1] = i

====
